---- MODULE Spec2Model ----
(***************************************************************************)
(* VoteCast: a replicated voting service.  Servers form a ring, elect a    *)
(* leader with a Hirschberg-Sinclair style election (src/server.py), and   *)
(* the leader FIFO-multicasts ballots to group members (src/server.py,     *)
(* src/client.py).                                                         *)
(*                                                                         *)
(* ServerIds are "ip:port" strings compared lexicographically by the code  *)
(* (sorted(), <).  They are modelled by the integers 1..NServers, the rank *)
(* of the string in that order; 0 stands for None.                         *)
(***************************************************************************)
EXTENDS Integers, Sequences, FiniteSets, Bags, TLC

\* ------------------------------------------------------------------ bounds
NServers == 3
MaxStarters == 2    \* servers whose menu starts elections in one run
MaxStarts == 4      \* operator-initiated hs_start calls in the ring election
NRing == 5          \* servers the views of the ring construction are drawn from
MaxVotesRepl == 1   \* START_VOTE requests admitted (replication)
MaxVotesFailover == 2  \* START_VOTE requests a server admits (change of leader)
MaxBallotsRepl == 2 \* ballots recorded per vote (replication)
MaxVotesAck == 2    \* START_VOTE requests admitted (acknowledgements)
MaxAcks == 2        \* acknowledgements of clients in flight
MaxRepl == 2        \* replication datagrams in flight to one server
MaxCrashStarts == 1 \* operator-initiated hs_start calls around the leader's crash
MaxMenuStarts == 1  \* menu choices 2 made while the servers boot
MaxViewStarts == 2  \* operator-initiated hs_start calls in the views of any size
NBoot == 2          \* servers started in the membership runs
MaxVoteStarts == 1  \* operator-initiated hs_start calls on the voting server
NTokensVote == 1     \* tokens the generator yields where tokens play no part
NTokens == 2        \* distinct values secrets.token_hex may return
MaxVotes == 1       \* START_VOTE requests admitted (vote lifecycle)
MaxVotesAuth == 1   \* START_VOTE requests admitted (sessions and authentication)
MaxVotesFifo == 4   \* START_VOTE requests admitted (FIFO delivery)
MaxVotesSeq == 2    \* START_VOTE requests admitted (sequence numbers)
MaxVotesLate == 2   \* START_VOTE requests admitted (late acknowledgements)
MaxBallots == 2     \* ballots recorded per vote
MaxTallyBallots == 3  \* ballots in the lists the tally is computed for
MaxBallotsAuth == 1  \* ballots recorded per vote (sessions and authentication)
MaxTime == 1        \* clock values 0..MaxTime
MaxTimeout == 0     \* timeout values 0..MaxTimeout a START_VOTE may carry

Servers == 1..NServers
None == 0
VoteSrv == 1        \* the server of the single-server deployment
ReplLeader == 2     \* the leader of the two-server deployment
ReplFollower == 1   \* its follower

ClientList == <<"c1", "c2">>
Clients == {ClientList[i] : i \in 1..Len(ClientList)}
Addrs == {"a1", "a2"}
ClientAddr(c) == IF c = "c1" THEN "a1" ELSE "a2"
Tokens == 1..NTokens
NoToken == 0
Groups == {"g"}
NoGroup == "None"
Options == <<"a", "b">>
Choices == {"a", "b"}
Topic == "topic"
NoWinner == "No votes, no winner"
NoVote == 0
VoteIdSpace == 10   \* the identifiers uuid4 draws on one server, apart from those of the others
NoSeq == -1
ZeroTimeout == 0     \* the timeout of a START_VOTE where the clock does not run

VARIABLES
    srv,        \* srv[s]: the election and membership fields of Server object s
    net,        \* bag of unicast server-to-server datagrams in flight
    starts,     \* per server, the number of hs_start calls made from its menu so far
    app,        \* app[s]: clients, groups, votes, S and fo_pending of server s
    rt,         \* rt[s]: position and locals of the __fo_retransmit_loop thread of s
    now,        \* the clock read by time.time()
    cnet,       \* VOTE datagrams sent to client addresses (may be lost, repeated, reordered)
    cl,         \* cl[c]: R, hold_back and the deliveries of Client object c
    obs,        \* whether this run records the datagrams of the latest step in out
    out,        \* the datagrams the latest step sent to client addresses
    audit       \* audit[v]: what happened to vote v (leader at START_VOTE, runs of
                \* __finalize_vote, members then, VOTE_RESULT datagrams sent)

vars == <<srv, net, starts, app, rt, now, cnet, cl, obs, out, audit>>

\* ------------------------------------------------------------------ helpers
RECURSIVE Pow2(_)
Pow2(n) == IF n = 0 THEN 1 ELSE 2 * Pow2(n - 1)

RECURSIVE SortedSeq(_)
SortedSeq(S) ==
    IF S = {} THEN <<>>
    ELSE LET m == CHOOSE x \in S : \A y \in S : x <= y
         IN <<m>> \o SortedSeq(S \ {m})

IndexOf(seq, x) == CHOOSE i \in 1..Len(seq) : seq[i] = x

Max(S) == CHOOSE x \in S : \A y \in S : y <= x

\* Server.__init__
ServerInit(s) ==
    [id |-> s, servers |-> {}, left |-> None, right |-> None, leader |-> None,
     is_leader |-> FALSE, phase |-> 0, pending_replies |-> 0,
     election_in_progress |-> FALSE, disc_alive |-> TRUE]

\* A ring construction that takes the predecessor for both neighbours.
build_ring_left_only(st) ==
    LET ordered == SortedSeq(st.servers)
        n == Len(ordered)
        idx == IndexOf(ordered, st.id)
    IN [st EXCEPT !.left = ordered[((idx - 2 + n) % n) + 1],
                  !.right = ordered[((idx - 2 + n) % n) + 1]]

\* Server.__build_ring (called with self.id in self.servers)
build_ring(st) ==
    LET ordered == SortedSeq(st.servers)
        n == Len(ordered)
        idx == IndexOf(ordered, st.id)
    IN [st EXCEPT !.left = ordered[((idx - 2 + n) % n) + 1],
                  !.right = ordered[(idx % n) + 1]]

\* A handler's result: the new fields of the server and the datagrams it sent.
Res(st, msgs) == [st |-> st, out |-> msgs]

\* Server.__hs_send_neighbors
hs_send_neighbors(st) ==
    LET distance == Pow2(st.phase)
        probe(direction) ==
            [type |-> "HS_ELECTION", id |-> st.id, phase |-> st.phase,
             direction |-> direction, hop |-> distance,
             to |-> IF direction = "LEFT" THEN st.left ELSE st.right]
    IN Res([st EXCEPT !.pending_replies = 2], <<probe("LEFT"), probe("RIGHT")>>)

\* Server.__hs_start.  With the ring unbuilt and self.id not in self.servers,
\* __build_ring raises ValueError before any field is assigned.
hs_start(st) ==
    IF st.election_in_progress THEN Res(st, <<>>)
    ELSE IF (st.left = None \/ st.right = None) /\ st.id \notin st.servers
    THEN Res(st, <<>>)
    ELSE LET st1 == IF st.left = None \/ st.right = None THEN build_ring(st) ELSE st
         IN hs_send_neighbors([st1 EXCEPT !.election_in_progress = TRUE,
                                          !.leader = None,
                                          !.is_leader = FALSE,
                                          !.phase = 0])

\* Server.__hs_election
hs_election(st, msg) ==
    LET neighbor == IF msg.direction = "LEFT" THEN st.left ELSE st.right
    IN IF msg.id < st.id
       THEN IF ~st.election_in_progress THEN hs_start(st) ELSE Res(st, <<>>)
       ELSE IF msg.hop > 1
            THEN Res(st, <<[msg EXCEPT !.hop = msg.hop - 1, !.to = neighbor]>>)
            ELSE Res(st, <<[type |-> "HS_REPLY", id |-> msg.id,
                            direction |-> msg.direction, to |-> neighbor]>>)

\* Server.__hs_declare_leader
hs_declare_leader(st) ==
    Res([st EXCEPT !.leader = st.id, !.is_leader = TRUE,
                   !.election_in_progress = FALSE],
        <<[type |-> "HS_LEADER", id |-> st.id, to |-> st.left]>>)

\* Server.__hs_reply
hs_reply(st, msg) ==
    LET neighbor == IF msg.direction = "LEFT" THEN st.left ELSE st.right
    IN IF msg.id # st.id
       THEN Res(st, <<[msg EXCEPT !.to = neighbor]>>)
       ELSE LET st1 == [st EXCEPT !.pending_replies = st.pending_replies - 1]
            IN IF st1.pending_replies = 0
               THEN LET st2 == [st1 EXCEPT !.phase = st1.phase + 1]
                    IN IF Pow2(st2.phase) >= Cardinality(st2.servers)
                       THEN hs_declare_leader(st2)
                       ELSE hs_send_neighbors(st2)
               ELSE Res(st1, <<>>)

\* Server.__hs_leader
hs_leader(st, msg) ==
    LET st1 == [st EXCEPT !.leader = msg.id,
                          !.is_leader = (msg.id = st.id),
                          !.election_in_progress = FALSE]
    IN IF st1.left # msg.id
       THEN Res(st1, <<[msg EXCEPT !.to = st1.left]>>)
       ELSE Res(st1, <<>>)

\* Server.__send: with the ring unbuilt the neighbour is None, None.split
\* raises and nothing is sent.
Sent(msgs) == SelectSeq(msgs, LAMBDA m : m.to # None)

RECURSIVE SeqToBag(_)
SeqToBag(seq) ==
    IF seq = <<>> THEN EmptyBag
    ELSE SetToBag({Head(seq)}) (+) SeqToBag(Tail(seq))

\* ------------------------------------------------------------------ application
EmptyFn == [x \in {} |-> 0]

\* Server.__init__ (clients, groups, votes, S, fo_pending).  fo_pending is a
\* dict iterated in insertion order: a sequence of entries, each with its key.
AppInit ==
    [clients |-> EmptyFn, groups |-> EmptyFn, votes |-> EmptyFn, S |-> EmptyFn,
     fo_pending |-> <<>>]

\* A datagram sent to a client address.
Dg(to, msg) == [to |-> to, msg |-> msg]

\* A handler's result: the new application state, the datagrams sent to client
\* addresses and to servers, and whether it returned (FALSE: it raised).
ARes(a, o, n, ok) == [app |-> a, out |-> o, net |-> n, ok |-> ok]

\* is_authenticated without the comparison of the token
is_authenticated_any_token(a, msg) == msg.id \in DOMAIN a.clients

\* Server.is_authenticated
is_authenticated(a, msg) ==
    /\ msg.id \in DOMAIN a.clients
    /\ a.clients[msg.id].token = msg.token

\* Server.send_error (through __send, whoever is leader)
send_error(addr, err) == {Dg(addr, [type |-> "ERROR", error |-> err])}

\* Server.__leader_send
leader_send(st, to, msg) == IF st.is_leader THEN {Dg(to, msg)} ELSE {}

\* requires_auth: the wrapper around a handler whose result is res
requires_auth(a, msg, addr, res) ==
    IF ~is_authenticated(a, msg)
    THEN ARes(a, send_error(addr, "AUTH_FAILED"), <<>>, TRUE)
    ELSE res

\* dict lookups of fo_pending by key (group, seq)
PendingIndex(fo, key) ==
    IF \E i \in 1..Len(fo) : fo[i].key = key
    THEN CHOOSE i \in 1..Len(fo) : fo[i].key = key
    ELSE 0

RemoveAt(seq, i) == SubSeq(seq, 1, i - 1) \o SubSeq(seq, i + 1, Len(seq))

RECURSIVE SetToSeq(_)
SetToSeq(S) ==
    IF S = {} THEN <<>>
    ELSE LET m == CHOOSE x \in S : \A y \in S : x <= y
         IN <<m>> \o SetToSeq(S \ {m})

\* Server.__register
register(st, a, msg, addr, token) ==
    LET a1 == [a EXCEPT !.clients =
                   (msg.id :> [token |-> token, addr |-> addr]) @@ a.clients]
        others == IF st.is_leader THEN SetToSeq(st.servers \ {st.id}) ELSE <<>>
        repl == [i \in 1..Len(others) |->
                    [type |-> "REPL_REGISTER", to |-> others[i], from |-> st.id,
                     id |-> msg.id, token |-> token, addr |-> addr]]
    IN ARes(a1, leader_send(st, addr, [type |-> "REGISTER_OK", token |-> token]),
            repl, TRUE)

\* A creation that, for a group that exists, starts its sequence numbers anew.
create_group_resets_S(st, a, msg, addr) ==
    requires_auth(a, msg, addr,
        IF msg.group = NoGroup
        THEN ARes(a, {}, <<>>, TRUE)
        ELSE IF msg.group \in DOMAIN a.groups
        THEN ARes([a EXCEPT !.S[msg.group] = 0], {}, <<>>, TRUE)
        ELSE ARes([a EXCEPT
                     !.groups = (msg.group :> [owner |-> msg.id, members |-> {msg.id}])
                                @@ a.groups,
                     !.S = (msg.group :> 0) @@ a.S],
                  leader_send(st, addr, [type |-> "CREATE_GROUP_OK", group |-> msg.group]),
                  <<>>, TRUE))

\* Server.__create_group
create_group(st, a, msg, addr) ==
    requires_auth(a, msg, addr,
        IF msg.group = NoGroup \/ msg.group \in DOMAIN a.groups
        THEN ARes(a, {}, <<>>, TRUE)
        ELSE ARes([a EXCEPT
                     !.groups = (msg.group :> [owner |-> msg.id, members |-> {msg.id}])
                                @@ a.groups,
                     !.S = (msg.group :> 0) @@ a.S],
                  leader_send(st, addr, [type |-> "CREATE_GROUP_OK", group |-> msg.group]),
                  <<>>, TRUE))

\* Server.__get_groups
get_groups(st, a, msg, addr) ==
    requires_auth(a, msg, addr,
        ARes(a, leader_send(st, addr, [type |-> "GET_GROUPS_OK",
                                       groups |-> DOMAIN a.groups]), <<>>, TRUE))

\* A join that also enters the client in the pending sets of the ballots of
\* the group, as if an entry shared the set of members.
join_group_shared_pending(st, a, msg, addr) ==
    requires_auth(a, msg, addr,
        IF msg.group = NoGroup \/ msg.group \notin DOMAIN a.groups
        THEN ARes(a, {}, <<>>, TRUE)
        ELSE ARes([a EXCEPT !.groups[msg.group].members = @ \cup {msg.id},
                            !.fo_pending =
                                [i \in 1..Len(@) |->
                                    IF @[i].key[1] = msg.group
                                    THEN [@[i] EXCEPT !.pending = @ \cup {msg.id}]
                                    ELSE @[i]]],
                  leader_send(st, addr, [type |-> "JOIN_GROUP_OK", group |-> msg.group]),
                  <<>>, TRUE))

\* Server.__join_group
join_group(st, a, msg, addr) ==
    requires_auth(a, msg, addr,
        IF msg.group = NoGroup \/ msg.group \notin DOMAIN a.groups
        THEN ARes(a, {}, <<>>, TRUE)
        ELSE ARes([a EXCEPT !.groups[msg.group].members = @ \cup {msg.id}],
                  leader_send(st, addr, [type |-> "JOIN_GROUP_OK", group |-> msg.group]),
                  <<>>, TRUE))

\* Server.__joined_groups
joined_groups(st, a, msg, addr) ==
    requires_auth(a, msg, addr,
        ARes(a, leader_send(st, addr,
                    [type |-> "JOINED_GROUPS_OK",
                     groups |-> {g \in DOMAIN a.groups : msg.id \in a.groups[g].members}]),
             <<>>, TRUE))

\* Server.__leave_group
leave_group(st, a, msg, addr) ==
    requires_auth(a, msg, addr,
        IF \/ msg.group = NoGroup
           \/ msg.group \notin DOMAIN a.groups
           \/ msg.id \notin a.groups[msg.group].members
        THEN ARes(a, {}, <<>>, TRUE)
        ELSE ARes([a EXCEPT !.groups[msg.group].members = @ \ {msg.id}],
                  leader_send(st, addr, [type |-> "LEAVE_GROUP_OK", group |-> msg.group]),
                  <<>>, TRUE))

\* Server.__fo_multicast; t is the value of time.time()
fo_multicast(st, a, group, payload, timeout, t) ==
    LET seq == a.S[group]
        msg == [type |-> payload.type, vote_id |-> payload.vote_id,
                group |-> payload.group, topic |-> payload.topic,
                options |-> payload.options, S |-> seq, sender |-> st.id]
        pending == a.groups[group].members
        entry == [key |-> <<group, seq>>, pending |-> pending,
                  deadline |-> t + timeout, msg |-> msg, vote_id |-> payload.vote_id]
    IN ARes([a EXCEPT !.fo_pending = Append(a.fo_pending, entry),
                      !.S[group] = seq + 1],
            UNION {leader_send(st, a.clients[cid].addr, msg) : cid \in pending},
            <<>>, TRUE)

\* uuid.uuid4(): an identifier no vote has yet, on this server or another
FreshVoteId(st, a) == (st.id - 1) * VoteIdSpace + Cardinality(DOMAIN a.votes) + 1

\* Server.__start_vote
start_vote(st, a, msg, addr, t) ==
    requires_auth(a, msg, addr,
        IF \/ msg.group = NoGroup
           \/ msg.group \notin DOMAIN a.groups
           \/ msg.id \notin a.groups[msg.group].members
        THEN ARes(a, {}, <<>>, TRUE)
        ELSE LET ok == leader_send(st, addr,
                          [type |-> "START_VOTE_OK", group |-> msg.group,
                           topic |-> msg.topic, options |-> msg.options,
                           timeout |-> msg.timeout])
                 vote_id == FreshVoteId(st, a)
                 a1 == [a EXCEPT !.votes =
                           (vote_id :> [group |-> msg.group, topic |-> msg.topic,
                                        options |-> msg.options, votes |-> <<>>])
                           @@ a.votes]
                 payload == [type |-> "VOTE", vote_id |-> vote_id, group |-> msg.group,
                             topic |-> msg.topic, options |-> msg.options]
                 r == fo_multicast(st, a1, msg.group, payload, msg.timeout, t)
             IN ARes(r.app, ok \cup r.out, r.net, r.ok))

\* Server.__vote_ack.  A ballot keeps the fields of the acknowledgement the
\* program reads later (id, vote).
vote_ack(st, a, msg, addr) ==
    requires_auth(a, msg, addr,
        IF msg.vote_id = NoVote \/ msg.group = NoGroup \/ msg.S = NoSeq
        THEN ARes(a, {}, <<>>, TRUE)
        ELSE LET i == PendingIndex(a.fo_pending, <<msg.group, msg.S>>)
             IN IF i = 0
                THEN ARes(a, {}, <<>>, TRUE)
                ELSE LET a1 == [a EXCEPT !.fo_pending[i].pending = @ \ {msg.id}]
                     IN IF msg.vote_id \notin DOMAIN a1.votes
                        THEN ARes(a1, {}, <<>>, FALSE)     \* KeyError
                        ELSE ARes([a1 EXCEPT !.votes[msg.vote_id].votes =
                                       Append(@, [id |-> msg.id, vote |-> msg.vote])],
                                  {}, <<>>, TRUE))

\* A replication that leaves out LEAVE_GROUP.
repl_targets_no_leave(st, msg, ok) ==
    IF ok /\ st.is_leader /\ msg.type \notin {"REGISTER", "LEAVE_GROUP"}
    THEN SetToSeq(st.servers \ {st.id}) ELSE <<>>

\* Server.__handle_message, the servers the leader forwards a request to once
\* its handler has returned (ok: it did not raise)
repl_targets(st, msg, ok) ==
    IF ok /\ st.is_leader /\ msg.type # "REGISTER"
    THEN SetToSeq(st.servers \ {st.id}) ELSE <<>>

\* Server.__handle_message for the client requests: the handler, then the
\* leader's replication of the request to the other servers.
handle_message(st, a, msg, addr, token, t) ==
    LET r == CASE msg.type = "REGISTER" -> register(st, a, msg, addr, token)
               [] msg.type = "CREATE_GROUP" -> create_group(st, a, msg, addr)
               [] msg.type = "GET_GROUPS" -> get_groups(st, a, msg, addr)
               [] msg.type = "JOIN_GROUP" -> join_group(st, a, msg, addr)
               [] msg.type = "JOINED_GROUPS" -> joined_groups(st, a, msg, addr)
               [] msg.type = "LEAVE_GROUP" -> leave_group(st, a, msg, addr)
               [] msg.type = "START_VOTE" -> start_vote(st, a, msg, addr, t)
               [] msg.type = "VOTE_ACK" -> vote_ack(st, a, msg, addr)
        others == repl_targets(st, msg, r.ok)
        repl == [i \in 1..Len(others) |->
                    [type |-> msg.type, to |-> others[i], from |-> st.id,
                     req |-> msg, addr |-> addr]]
    IN ARes(r.app, r.out, r.net \o repl, r.ok)

\* ------------------------------------------------------------------ tally, retransmission, client
\* Server.__finalize_vote: vote_counts is filled in ballot order and
\* max(vote_counts, key=vote_counts.get) returns the first key, in that order,
\* among those with the greatest count.
CountOf(ballots, c) == Cardinality({i \in 1..Len(ballots) : ballots[i].vote = c})

FirstIndex(ballots, c) ==
    CHOOSE i \in 1..Len(ballots) :
        /\ ballots[i].vote = c
        /\ \A j \in 1..(i - 1) : ballots[j].vote # c

tally_winner(ballots) ==
    IF Len(ballots) = 0 THEN NoWinner
    ELSE LET voted == {ballots[i].vote : i \in 1..Len(ballots)}
         IN CHOOSE c \in voted :
                \A d \in voted \ {c} :
                    \/ CountOf(ballots, c) > CountOf(ballots, d)
                    \/ /\ CountOf(ballots, c) = CountOf(ballots, d)
                       /\ FirstIndex(ballots, c) < FirstIndex(ballots, d)

\* Server.__finalize_vote: the VOTE_RESULT it announces
finalize_result(a, vote_id) ==
    [type |-> "VOTE_RESULT", vote_id |-> vote_id, group |-> a.votes[vote_id].group,
     topic |-> a.votes[vote_id].topic, winner |-> tally_winner(a.votes[vote_id].votes)]

NoResult == [type |-> "NONE"]

\* The locals of Server.__fo_retransmit_loop; pc is its position:
\*   sleep   in time.sleep(0.5)
\*   scan    in the first for loop, before the test of the entry Head(items)
\*   send    in "for cid in entry['pending']" of the entry Head(items)
\*   pop     in the second for loop, before the pop of Head(finished)
\*   result  in "for cid in ...['members']" of __finalize_vote
\*   dead    the thread ended with an uncaught exception
RtInit ==
    [pc |-> "sleep", t |-> 0, items |-> <<>>, finished |-> <<>>, seen |-> {},
     size |-> 0, result |-> NoResult]

\* where the loop continues after the entry Head(items) is done
RtAfterItem(r, finished) ==
    IF Len(r.items) > 1
    THEN [r EXCEPT !.pc = "scan", !.items = Tail(r.items), !.finished = finished,
                   !.seen = {}, !.size = 0]
    ELSE IF finished # <<>>
         THEN [r EXCEPT !.pc = "pop", !.items = <<>>, !.finished = finished,
                        !.seen = {}, !.size = 0, !.t = 0]
         ELSE RtInit

\* where the loop continues after the key Head(finished) is done
RtAfterFinished(r) ==
    IF Len(r.finished) > 1
    THEN [r EXCEPT !.pc = "pop", !.finished = Tail(r.finished), !.seen = {},
                   !.size = 0, !.result = NoResult]
    ELSE RtInit

AuditInit(leader) == [leader |-> leader, runs |-> 0, members |-> {}, sent |-> EmptyBag]

\* Client.__init__ (R, hold_back) and the record of the calls of __fo_deliver
ClientInit == [R |-> EmptyFn, hold_back |-> EmptyFn, delivered |-> <<>>]

\* Client.__fo_deliver
fo_deliver(c, g, q, msg) ==
    [c EXCEPT !.R[<<g, q>>] = msg.S,
              !.delivered = Append(@, [group |-> g, sender |-> q, S |-> msg.S])]

\* Client.__vote: the while loop that drains the hold-back buffer
RECURSIVE fo_drain(_, _, _)
fo_drain(c, g, q) ==
    LET next_seq == c.R[<<g, q>>] + 1
    IN IF next_seq \in DOMAIN c.hold_back[<<g, q>>]
       THEN LET buffered == c.hold_back[<<g, q>>][next_seq]
                hb == [s \in DOMAIN c.hold_back[<<g, q>>] \ {next_seq} |->
                          c.hold_back[<<g, q>>][s]]
                c1 == [c EXCEPT !.hold_back[<<g, q>>] = hb]
            IN fo_drain(fo_deliver(c1, g, q, buffered), g, q)
       ELSE c

\* __vote without the hold-back branch: any sequence number above R is delivered
vote_no_hold_back(c, msg) ==
    LET g == msg.group
        q == msg.sender
        c0 == IF <<g, q>> \in DOMAIN c.R THEN c
              ELSE [c EXCEPT !.R = (<<g, q>> :> NoSeq) @@ c.R,
                             !.hold_back = (<<g, q>> :> EmptyFn) @@ c.hold_back]
    IN IF msg.S > c0.R[<<g, q>>] THEN fo_deliver(c0, g, q, msg) ELSE c0

\* Client.__vote
vote(c, msg) ==
    LET g == msg.group
        q == msg.sender
        c0 == IF <<g, q>> \in DOMAIN c.R THEN c
              ELSE [c EXCEPT !.R = (<<g, q>> :> NoSeq) @@ c.R,
                             !.hold_back = (<<g, q>> :> EmptyFn) @@ c.hold_back]
        R_qg == c0.R[<<g, q>>]
    IN IF msg.S = R_qg + 1
       THEN fo_drain(fo_deliver(c0, g, q, msg), g, q)
       ELSE IF msg.S > R_qg + 1
            THEN [c0 EXCEPT !.hold_back[<<g, q>>] = (msg.S :> msg) @@ @]
            ELSE c0

RECURSIVE SumTo(_, _)
SumTo(f, n) == IF n = 0 THEN 0 ELSE f[n] + SumTo(f, n - 1)

\* ------------------------------------------------------------------ actions
\* Server.run menu choice 2 (or the discovery thread): hs_start
TotalStarts == SumTo(starts, NServers)

Starters == {t \in Servers : starts[t] > 0}

HsStart(s, max) ==
    /\ TotalStarts < max
    /\ Cardinality(Starters \cup {s}) <= MaxStarters
    /\ IF /\ ~srv[s].election_in_progress
          /\ srv[s].left = None \/ srv[s].right = None
          /\ s \notin srv[s].servers
       THEN \* __build_ring raises ValueError: the menu loop ends, nothing changed
            /\ starts' = [starts EXCEPT ![s] = @ + 1]
            /\ UNCHANGED <<srv, net>>
       ELSE LET r == hs_start(srv[s])
            IN /\ srv' = [srv EXCEPT ![s] = r.st]
               /\ net' = net (+) SeqToBag(r.out)
               /\ starts' = [starts EXCEPT ![s] = @ + 1]
    /\ out' = {}
    /\ UNCHANGED <<app, rt, now, cnet, cl, obs, audit>>

\* Server.__handle_message for the HS_* datagrams
HandleHs(s) ==
    \E msg \in BagToSet(net) :
        /\ msg.to = s
        /\ msg.type \in {"HS_ELECTION", "HS_REPLY", "HS_LEADER"}
        /\ LET r == CASE msg.type = "HS_ELECTION" -> hs_election(srv[s], msg)
                      [] msg.type = "HS_REPLY" -> hs_reply(srv[s], msg)
                      [] msg.type = "HS_LEADER" -> hs_leader(srv[s], msg)
           IN /\ srv' = [srv EXCEPT ![s] = r.st]
              /\ net' = (net (-) SetToBag({msg})) (+) SeqToBag(Sent(r.out))
        /\ out' = {}
        /\ UNCHANGED <<starts, app, rt, now, cnet, cl, obs, audit>>


\* Server.__discovery_service on "SERVER:<sid>".  build_ring raises ValueError
\* when self.id is not in self.servers, which ends the discovery thread.
Discovery(s, sid) ==
    /\ srv[s].disc_alive
    /\ sid \notin srv[s].servers
    /\ LET st1 == [srv[s] EXCEPT !.servers = @ \cup {sid}]
       IN IF s \notin st1.servers
          THEN /\ srv' = [srv EXCEPT ![s] = [st1 EXCEPT !.disc_alive = FALSE]]
               /\ net' = net
          ELSE LET st2 == build_ring(st1)
                   r == IF sid = s THEN hs_start(st2) ELSE Res(st2, <<>>)
               IN /\ srv' = [srv EXCEPT ![s] = r.st]
                  /\ net' = net (+) SeqToBag(r.out)
    /\ out' = {}
    /\ UNCHANGED <<starts, app, rt, now, cnet, cl, obs, audit>>

\* The datagrams between servers that are not of the election or the gossip:
\* the leader's replication.
HsTypes == {"HS_ELECTION", "HS_REPLY", "HS_LEADER", "CRASH"}

ReplInFlight(s) ==
    {m \in BagToSet(net) : m.to = s /\ m.type \notin HsTypes \cup {"CLIENT_ACK"}}

\* The replication datagrams of one server to another arrive in the order
\* they were sent: each is stamped behind those still in flight.
Stamp(msgs) ==
    [i \in 1..Len(msgs) |->
        msgs[i] @@ [n |-> IF ReplInFlight(msgs[i].to) = {} THEN 1
                          ELSE 1 + Max({m.n : m \in ReplInFlight(msgs[i].to)})]]

\* Server.__message_handling: one client request handled by __handle_message
Handle(s, msg, addr, token) ==
    LET r == handle_message(srv[s], app[s], msg, addr, token, now)
    IN /\ app' = [app EXCEPT ![s] = r.app]
       /\ out' = IF obs THEN r.out ELSE {}
       /\ cnet' = cnet \cup {d \in r.out : d.msg.type = "VOTE"}
       /\ net' = net (+) SeqToBag(Stamp(r.net))
       /\ audit' = [v \in DOMAIN r.app.votes |->
                       IF v \in DOMAIN audit THEN audit[v]
                       ELSE AuditInit(srv[s].is_leader)]
       /\ UNCHANGED <<srv, starts, rt, now, cl, obs>>

\* The requests a step may receive.  With adv, any id and token, and a
\* REGISTER from any address; without, only what a client that follows the
\* protocol sends with the token of its session.  Every request but REGISTER
\* comes from the address of the client whose id it carries.
TokenChoices(s, cid, adv) ==
    IF adv THEN Tokens \cup {NoToken}
    ELSE IF cid \in DOMAIN app[s].clients THEN {app[s].clients[cid].token}
         ELSE {NoToken}

RegisterAddrs(cid, adv) == IF adv THEN Addrs ELSE {ClientAddr(cid)}

GroupChoices(adv) == IF adv THEN Groups \cup {NoGroup} ELSE Groups

\* client.py answers every ballot with the same vote; any client may send any
VoteChoices(adv) == IF adv THEN Choices ELSE {Options[1]}

Register(s, adv, ntokens) ==
    /\ s \in Servers
    /\ \E cid \in Clients, token \in 1..ntokens :
        \E addr \in RegisterAddrs(cid, adv) :
            Handle(s, [type |-> "REGISTER", id |-> cid], addr, token)

CreateGroup(s, adv) ==
    /\ s \in Servers
    /\ \E cid \in Clients, g \in GroupChoices(adv) :
        \E tok \in TokenChoices(s, cid, adv), addr \in {ClientAddr(cid)} :
            Handle(s, [type |-> "CREATE_GROUP", id |-> cid, token |-> tok, group |-> g],
                   addr, NoToken)

GetGroups(s, adv) ==
    /\ s \in Servers
    /\ \E cid \in Clients :
        \E tok \in TokenChoices(s, cid, adv), addr \in {ClientAddr(cid)} :
            Handle(s, [type |-> "GET_GROUPS", id |-> cid, token |-> tok], addr, NoToken)

JoinGroup(s, adv) ==
    /\ s \in Servers
    /\ \E cid \in Clients, g \in GroupChoices(adv) :
        \E tok \in TokenChoices(s, cid, adv), addr \in {ClientAddr(cid)} :
            Handle(s, [type |-> "JOIN_GROUP", id |-> cid, token |-> tok, group |-> g],
                   addr, NoToken)

JoinedGroups(s, adv) ==
    /\ s \in Servers
    /\ \E cid \in Clients :
        \E tok \in TokenChoices(s, cid, adv), addr \in {ClientAddr(cid)} :
            Handle(s, [type |-> "JOINED_GROUPS", id |-> cid, token |-> tok],
                   addr, NoToken)

LeaveGroup(s, adv) ==
    /\ s \in Servers
    /\ \E cid \in Clients, g \in GroupChoices(adv) :
        \E tok \in TokenChoices(s, cid, adv), addr \in {ClientAddr(cid)} :
            Handle(s, [type |-> "LEAVE_GROUP", id |-> cid, token |-> tok, group |-> g],
                   addr, NoToken)

StartVote(s, adv, maxvotes, maxtimeout) ==
    /\ Cardinality(DOMAIN app[s].votes) < maxvotes
    /\ \E cid \in Clients, g \in Groups, timeout \in 0..maxtimeout :
        \E tok \in TokenChoices(s, cid, adv), addr \in {ClientAddr(cid)} :
            Handle(s, [type |-> "START_VOTE", id |-> cid, token |-> tok, group |-> g,
                       topic |-> Topic, options |-> Options, timeout |-> timeout],
                   addr, NoToken)

\* The (vote_id, group, S) an acknowledgement may carry: with adv anything,
\* without those of a VOTE datagram sent to the address of the client.
AckChoices(s, cid, adv, maxvotes) ==
    IF adv
    THEN [vote_id : 1..maxvotes, group : Groups, S : 0..(maxvotes - 1)]
    ELSE {[vote_id |-> d.msg.vote_id, group |-> d.msg.group, S |-> d.msg.S] :
            d \in {e \in cnet : e.to = ClientAddr(cid)}}

VoteAck(s, adv, maxvotes, maxballots) ==
    /\ \A v \in DOMAIN app[s].votes : Len(app[s].votes[v].votes) < maxballots
    /\ \E cid \in Clients, choice \in VoteChoices(adv) :
        \E tok \in TokenChoices(s, cid, adv), addr \in {ClientAddr(cid)},
           k \in AckChoices(s, cid, adv, maxvotes) :
            Handle(s, [type |-> "VOTE_ACK", id |-> cid, token |-> tok,
                       group |-> k.group, vote_id |-> k.vote_id, S |-> k.S,
                       vote |-> choice],
                   addr, NoToken)

\* time passes
Tick ==
    /\ now < MaxTime
    /\ now' = now + 1
    /\ out' = {}
    /\ UNCHANGED <<srv, net, starts, app, rt, cnet, cl, obs, audit>>

RtStep(s, r, a, o, au) ==
    /\ rt' = [rt EXCEPT ![s] = r]
    /\ app' = [app EXCEPT ![s] = a]
    /\ out' = IF obs THEN o ELSE {}
    /\ cnet' = cnet \cup {d \in o : d.msg.type = "VOTE"}
    /\ audit' = au
    /\ UNCHANGED <<srv, net, starts, now, cl, obs>>

\* __fo_retransmit_loop: now = time.time(); list(self.fo_pending.items()).
\* (With an empty table the iteration does nothing and is not a step.)
RtBegin(s) ==
    /\ rt[s].pc = "sleep"
    /\ app[s].fo_pending # <<>>
    /\ RtStep(s, [RtInit EXCEPT !.pc = "scan", !.t = now,
                     !.items = [i \in 1..Len(app[s].fo_pending) |->
                                   app[s].fo_pending[i].key]],
              app[s], {}, audit)

\* __fo_retransmit_loop: the test of one entry; it is finished, or the
\* iteration over its pending set starts
RtScan(s) ==
    /\ rt[s].pc = "scan"
    /\ LET r == rt[s]
           entry == app[s].fo_pending[PendingIndex(app[s].fo_pending, Head(r.items))]
       IN IF r.t > entry.deadline \/ entry.pending = {}
          THEN RtStep(s, RtAfterItem(r, Append(r.finished, entry.key)), app[s], {}, audit)
          ELSE RtStep(s, [r EXCEPT !.pc = "send", !.seen = {},
                                   !.size = Cardinality(entry.pending)],
                      app[s], {}, audit)

\* __fo_retransmit_loop: one turn of "for cid in entry['pending']"; the set
\* iterator raises RuntimeError when the set changed size since the loop began
RtSend(s) ==
    /\ rt[s].pc = "send"
    /\ LET r == rt[s]
           entry == app[s].fo_pending[PendingIndex(app[s].fo_pending, Head(r.items))]
       IN IF Cardinality(entry.pending) # r.size
          THEN RtStep(s, [RtInit EXCEPT !.pc = "dead"], app[s], {}, audit)
          ELSE \E cid \in entry.pending \ r.seen :
                  LET seen == r.seen \cup {cid}
                      o == leader_send(srv[s], app[s].clients[cid].addr, entry.msg)
                  IN IF seen = entry.pending
                     THEN RtStep(s, RtAfterItem(r, r.finished), app[s], o, audit)
                     ELSE RtStep(s, [r EXCEPT !.seen = seen], app[s], o, audit)

\* __fo_retransmit_loop: pop of one finished key, and __finalize_vote up to
\* its for loop over the members of the group
RtPop(s) ==
    /\ rt[s].pc = "pop"
    /\ LET r == rt[s]
           i == PendingIndex(app[s].fo_pending, Head(r.finished))
           entry == app[s].fo_pending[i]
           a1 == [app[s] EXCEPT !.fo_pending = RemoveAt(@, i)]
           res == finalize_result(a1, entry.vote_id)
           members == a1.groups[res.group].members
           au == [audit EXCEPT ![entry.vote_id].runs = @ + 1,
                               ![entry.vote_id].members = members]
       IN IF members = {}
          THEN RtStep(s, RtAfterFinished(r), a1, {}, au)
          ELSE RtStep(s, [r EXCEPT !.pc = "result", !.result = res, !.seen = {},
                                   !.size = Cardinality(members)],
                      a1, {}, au)

\* __finalize_vote: one turn of "for cid in self.groups[...]['members']"
RtResult(s) ==
    /\ rt[s].pc = "result"
    /\ LET r == rt[s]
           members == app[s].groups[r.result.group].members
       IN IF Cardinality(members) # r.size
          THEN RtStep(s, [RtInit EXCEPT !.pc = "dead"], app[s], {}, audit)
          ELSE \E cid \in members \ r.seen :
                  LET seen == r.seen \cup {cid}
                      o == leader_send(srv[s], app[s].clients[cid].addr, r.result)
                      au == [audit EXCEPT ![r.result.vote_id].sent =
                                @ (+) SeqToBag([i \in 1..Cardinality(o) |->
                                                   app[s].clients[cid].addr])]
                  IN IF seen = members
                     THEN RtStep(s, RtAfterFinished(r), app[s], o, au)
                     ELSE RtStep(s, [r EXCEPT !.seen = seen], app[s], o, au)

\* Client.__message_handling: a VOTE datagram with sequence number q arrives
\* at client c (any datagram ever sent may arrive, any number of times)
ClientRecvSeq(c, q) ==
    /\ \E d \in cnet :
        /\ d.to = ClientAddr(c)
        /\ d.msg.S = q
        /\ cl' = [cl EXCEPT ![c] = vote(cl[c], d.msg)]
    /\ out' = {}
    /\ UNCHANGED <<srv, net, starts, app, rt, now, cnet, obs, audit>>

ClientRecv(c) == \E q \in 0..(MaxVotesFifo - 1) : ClientRecvSeq(c, q)

\* ------------------------------------------------------------------ specifications
AppQuiet ==
    /\ app = [s \in Servers |-> AppInit]
    /\ rt = [s \in Servers |-> RtInit]
    /\ now = 0
    /\ cnet = {}
    /\ cl = [c \in Clients |-> ClientInit]
    /\ out = {}
    /\ audit = EmptyFn

\* A stable view: every server has discovered itself, elected itself while
\* alone, and then discovered the others (ring rebuilt, no election yet).
StableServer(s) ==
    build_ring([ServerInit(s) EXCEPT !.servers = Servers, !.leader = s,
                                     !.is_leader = TRUE, !.phase = 1])

\* The ring election in a stable view of NServers servers.
InitHS ==
    /\ srv = [s \in Servers |-> StableServer(s)]
    /\ net = EmptyBag
    /\ starts = [s \in Servers |-> 0]
    /\ obs = FALSE
    /\ AppQuiet

\* The servers whose operator starts elections from the menu; the others
\* start one only when an HS_ELECTION of a smaller id reaches them.
MenuServers == Servers \ {1}

NextHS ==
    \/ \E s \in MenuServers : HsStart(s, MaxStarts)
    \/ \E s \in Servers : HandleHs(s)

SpecHS == InitHS /\ [][NextHS]_vars

\* One server on its own, from its construction: it discovers itself, elects
\* itself and serves clients.
InitServer ==
    /\ srv = [s \in Servers |-> ServerInit(s)]
    /\ net = EmptyBag
    /\ starts = [s \in Servers |-> 0]
    /\ AppQuiet

Boot == Discovery(VoteSrv, VoteSrv) \/ HandleHs(VoteSrv)

\* The server after Boot has run to its end: alone in its view and leader.
Booted(s) ==
    build_ring([ServerInit(s) EXCEPT !.servers = {s}, !.leader = s,
                                     !.is_leader = TRUE, !.phase = 1])

InitBooted ==
    /\ srv = [s \in Servers |-> IF s = VoteSrv THEN Booted(s) ELSE ServerInit(s)]
    /\ net = EmptyBag
    /\ starts = [s \in Servers |-> 0]
    /\ rt = [s \in Servers |-> RtInit]
    /\ now = 0
    /\ cnet = {}
    /\ cl = [c \in Clients |-> ClientInit]
    /\ out = {}
    /\ audit = EmptyFn

\* Sessions and authentication on the booted server: every request, with
\* any id, token and source address.
InitAuth ==
    /\ InitBooted
    /\ app = [s \in Servers |-> AppInit]
    /\ obs = TRUE

NextAuth ==
    \/ Register(VoteSrv, TRUE, NTokens)
    \/ CreateGroup(VoteSrv, TRUE)
    \/ GetGroups(VoteSrv, TRUE)
    \/ JoinGroup(VoteSrv, TRUE)
    \/ JoinedGroups(VoteSrv, TRUE)
    \/ LeaveGroup(VoteSrv, TRUE)
    \/ StartVote(VoteSrv, TRUE, MaxVotesAuth, ZeroTimeout)
    \/ VoteAck(VoteSrv, TRUE, MaxVotesAuth, MaxBallotsAuth)

SpecAuth == InitAuth /\ [][NextAuth]_vars

\* The application state once the clients have registered with the booted
\* server, the first has created the group and the others have joined it.
RECURSIVE Joined(_, _)
Joined(a, cs) ==
    IF cs = <<>> THEN a
    ELSE LET c == Head(cs)
             a1 == handle_message(Booted(VoteSrv), a, [type |-> "REGISTER", id |-> c],
                                  ClientAddr(c), NTokensVote, 0).app
             tok == a1.clients[c].token
             a2 == handle_message(Booted(VoteSrv), a1,
                                  [type |-> "CREATE_GROUP", id |-> c, token |-> tok,
                                   group |-> "g"], ClientAddr(c), NoToken, 0).app
             a3 == handle_message(Booted(VoteSrv), a2,
                                  [type |-> "JOIN_GROUP", id |-> c, token |-> tok,
                                   group |-> "g"], ClientAddr(c), NoToken, 0).app
         IN Joined(a3, Tail(cs))

\* The life of a vote on the booted server with the group formed: requests
\* of clients that follow the protocol, the clock, the retransmit thread and
\* elections started from the menu.
InitVote ==
    /\ InitBooted
    /\ app = [s \in Servers |->
                 IF s = VoteSrv THEN Joined(AppInit, ClientList) ELSE AppInit]
    /\ obs = FALSE

NextVote ==
    \/ HsStart(VoteSrv, MaxVoteStarts)
    \/ HandleHs(VoteSrv)
    \/ JoinGroup(VoteSrv, FALSE)
    \/ LeaveGroup(VoteSrv, FALSE)
    \/ StartVote(VoteSrv, FALSE, MaxVotes, MaxTimeout)
    \/ VoteAck(VoteSrv, FALSE, MaxVotes, MaxBallots)
    \/ Tick
    \/ RtBegin(VoteSrv)
    \/ RtScan(VoteSrv)
    \/ RtSend(VoteSrv)
    \/ RtPop(VoteSrv)
    \/ RtResult(VoteSrv)

SpecVote == InitVote /\ [][NextVote]_vars

\* FIFO delivery at the clients of the ballots the booted server multicasts
\* while clients register, form the group and join it.
InitFifo ==
    /\ InitBooted
    /\ app = [s \in Servers |-> AppInit]
    /\ obs = FALSE

NextFifo ==
    \/ Register(VoteSrv, FALSE, NTokensVote)
    \/ CreateGroup(VoteSrv, FALSE)
    \/ JoinGroup(VoteSrv, FALSE)
    \/ StartVote(VoteSrv, FALSE, MaxVotesFifo, ZeroTimeout)
    \/ \E c \in Clients : ClientRecv(c)

SpecFifo == InitFifo /\ [][NextFifo]_vars

\* The winner of every ballot list: a vote of the formed group whose ballots
\* are any list the server can have recorded and whose deadline has passed,
\* finalized by the retransmit thread.
BallotLists ==
    UNION {[1..n -> [id : Clients, vote : Choices]] : n \in 0..MaxTallyBallots}

Voted(ballots) ==
    LET a0 == Joined(AppInit, ClientList)
        c == ClientList[1]
        a1 == handle_message(Booted(VoteSrv), a0,
                             [type |-> "START_VOTE", id |-> c,
                              token |-> a0.clients[c].token, group |-> "g",
                              topic |-> Topic, options |-> Options,
                              timeout |-> ZeroTimeout],
                             ClientAddr(c), NoToken, 0).app
    IN [a1 EXCEPT !.votes[1].votes = ballots,
                  !.fo_pending[1].pending =
                      @ \ {ballots[i].id : i \in 1..Len(ballots)}]

InitTally ==
    /\ InitBooted
    /\ obs = FALSE
    /\ \E ballots \in BallotLists :
          app = [s \in Servers |-> IF s = VoteSrv THEN Voted(ballots) ELSE AppInit]

NextTally ==
    \/ Tick
    \/ RtBegin(VoteSrv)
    \/ RtScan(VoteSrv)
    \/ RtSend(VoteSrv)
    \/ RtPop(VoteSrv)
    \/ RtResult(VoteSrv)

SpecTally == InitTally /\ [][NextTally]_vars

\* ------------------------------------------------------------------ C1
\* The election has terminated: no HS_* datagram is in flight and no server
\* has election_in_progress
Terminated ==
    /\ net = EmptyBag
    /\ \A s \in Servers : ~srv[s].election_in_progress

\* C1: in a stable view, whenever the election has terminated, exactly one
\* server has is_leader, it is the greatest id of the view, and the leader
\* field of every server equals it.
C1_UniqueMaxLeader ==
    (TotalStarts > 0 /\ Terminated) =>
        /\ \A s \in Servers : srv[s].is_leader <=> (s = Max(Servers))
        /\ \A s \in Servers : srv[s].leader = Max(Servers)

\* ------------------------------------------------------------------ C2
\* Reliable unicast: a datagram in flight is eventually handled.
FairHS == SpecHS /\ WF_vars(\E s \in Servers : HandleHs(s))

Agreed ==
    /\ \A s \in Servers : srv[s].leader = Max(Servers)
    /\ \A s \in Servers : ~srv[s].election_in_progress
    /\ srv[Max(Servers)].is_leader

\* C2: in a stable view with reliable unicast, once a server has called
\* hs_start the system eventually reaches a state where every server has
\* leader = max(V) and no election in progress, and max(V) has is_leader.
C2_EventuallyAgreed == (TotalStarts > 0) ~> Agreed

\* ------------------------------------------------------------------ C3
\* The deliveries of client c for the pair (g, q), in the order they happened
DeliveredFrom(c, pair) ==
    SelectSeq(cl[c].delivered, LAMBDA e : <<e.group, e.sender>> = pair)

\* C3: for every receiver and every (group, sender) pair the receiver
\* delivers each sequence number at most once, in increasing order and
\* without a gap (the i-th delivery is sequence number i - 1); what waits in
\* the hold-back buffer lies beyond R + 1.
C3_FifoDelivery ==
    \A c \in Clients : \A pair \in DOMAIN cl[c].R :
        LET d == DeliveredFrom(c, pair)
        IN /\ \A i \in 1..Len(d) : d[i].S = i - 1
           /\ cl[c].R[pair] = Len(d) - 1
           /\ \A q \in DOMAIN cl[c].hold_back[pair] : q > cl[c].R[pair] + 1

\* A client has delivered sequence numbers 0 and 1 while a later one is not
\* yet sent to it, and another client holds an early ballot back.
C3_Witness ==
    \E c, e \in Clients : \E pair \in DOMAIN cl[c].R \cap DOMAIN cl[e].R :
        /\ Len(DeliveredFrom(c, pair)) >= 2
        /\ DOMAIN cl[e].hold_back[pair] # {}

\* ------------------------------------------------------------------ C4
\* Fair-lossy channel with retransmission: a ballot that was sent to a client
\* eventually arrives there.
FairFifo ==
    /\ SpecFifo
    /\ \A c \in Clients : \A q \in 0..(MaxVotesFifo - 1) : WF_vars(ClientRecvSeq(c, q))

\* C4: every ballot multicast to a client (the client was in the recipients
\* snapshot) is eventually delivered by that client.
C4_EventualDelivery ==
    \A c \in Clients : \A q \in 0..(MaxVotesFifo - 1) :
        (\E d \in cnet : d.to = ClientAddr(c) /\ d.msg.S = q)
            ~> (\E i \in 1..Len(cl[c].delivered) : cl[c].delivered[i].S = q)

\* ------------------------------------------------------------------ C5
\* __finalize_vote has run for vote v and is not in its loop over the members
FinalizeDone(v) ==
    /\ audit[v].runs >= 1
    /\ ~(rt[VoteSrv].pc = "result" /\ rt[VoteSrv].result.vote_id = v)

\* C5 (its safety part): once a vote created on the leader is finalized,
\* __finalize_vote has run exactly once for it and exactly one VOTE_RESULT
\* was sent to each member of its group, never zero and never two.
C5_OneResultPerMember ==
    \A v \in DOMAIN audit :
        (audit[v].leader /\ FinalizeDone(v)) =>
            /\ audit[v].runs = 1
            /\ \A m \in audit[v].members :
                  CopiesIn(app[VoteSrv].clients[m].addr, audit[v].sent) = 1

\* ------------------------------------------------------------------ C6
Keys(fo) == {fo[i].key : i \in 1..Len(fo)}

Due(entry, t) == entry.pending = {} \/ t >= entry.deadline

C6_Step(s) ==
    LET r == rt[s]
        fo == app[s].fo_pending
    IN \* an entry leaves the table only by the pop of the retransmit loop
       /\ \A key \in Keys(fo) \ Keys(app'[s].fo_pending) :
             r.pc = "pop" /\ key = Head(r.finished)
       \* the loop marks an entry finished exactly when it is due
       /\ (r.pc = "scan" /\ rt'[s] # r) =>
             LET entry == fo[PendingIndex(fo, Head(r.items))]
             IN (rt'[s].pc # "send") <=> Due(entry, r.t)
       \* and it retransmits no entry that is due
       /\ (r.pc = "send" /\ rt'[s] # r /\ rt'[s].pc # "dead") =>
             LET entry == fo[PendingIndex(fo, Head(r.items))]
             IN r.t < entry.deadline

\* C6: a pending entry is removed only by the retransmit loop and only in a
\* tick where its pending set is empty or its deadline has been reached; an
\* entry for which either holds is marked for removal in the tick and is not
\* retransmitted; no other operation removes an entry.
C6_RemovalIffDue == [][C6_Step(VoteSrv)]_vars

\* ------------------------------------------------------------------ C7
\* The reference tally: the option with the highest count, on a tie the one
\* that comes first in the list of options, the marker without ballots.
reference_winner(options, ballots) ==
    IF Len(ballots) = 0 THEN NoWinner
    ELSE LET best == CHOOSE i \in 1..Len(options) :
                        /\ \A j \in 1..Len(options) :
                              CountOf(ballots, options[i]) >= CountOf(ballots, options[j])
                        /\ \A j \in 1..(i - 1) :
                              CountOf(ballots, options[j]) < CountOf(ballots, options[i])
         IN options[best]

\* C7: the winner __finalize_vote announces equals the reference tally of
\* the ballot list of the vote.
C7_TallyWinner ==
    rt[VoteSrv].pc = "result" =>
        LET v == app[VoteSrv].votes[rt[VoteSrv].result.vote_id]
        IN rt[VoteSrv].result.winner = reference_winner(v.options, v.votes)

\* ------------------------------------------------------------------ C8
\* C8: the ballot list of every vote holds at most one ballot of each voter.
C8_OneBallotPerVoter ==
    \A v \in DOMAIN app[VoteSrv].votes : \A c \in Clients :
        LET ballots == app[VoteSrv].votes[v].votes
        IN Cardinality({i \in 1..Len(ballots) : ballots[i].id = c}) <= 1

\* ------------------------------------------------------------------ C9
\* The requests of the seven authenticated types, with any id, token and fields
AuthRequests ==
    LET ids == [id : Clients, token : Tokens \cup {NoToken}]
        with(type, fields) ==
            {[type |-> type] @@ i @@ f : i \in ids, f \in fields}
        grp == [group : Groups \cup {NoGroup}]
    IN with("CREATE_GROUP", grp) \cup with("JOIN_GROUP", grp)
         \cup with("LEAVE_GROUP", grp)
         \cup with("GET_GROUPS", {EmptyFn}) \cup with("JOINED_GROUPS", {EmptyFn})
         \cup with("START_VOTE", [group : Groups, topic : {Topic}, options : {Options},
                                  timeout : 0..ZeroTimeout])
         \cup with("VOTE_ACK", [group : Groups, vote_id : 1..MaxVotesAuth,
                                S : 0..(MaxVotesAuth - 1), vote : Choices])

\* The id of the request is not registered or its token is not the session's
BadAuth(a, msg) ==
    msg.id \in DOMAIN a.clients => a.clients[msg.id].token # msg.token

AuthFailed(addr) == Dg(addr, [type |-> "ERROR", error |-> "AUTH_FAILED"])

\* C9: in every state the server reaches, a request of an authenticated type
\* whose id is not registered or whose token differs from the session's is
\* answered with ERROR{AUTH_FAILED} and leaves clients, groups, votes, S and
\* fo_pending as they are.
C9_AuthFailedNoChange ==
    \A msg \in AuthRequests : \A addr \in Addrs :
        BadAuth(app[VoteSrv], msg) =>
            LET r == handle_message(srv[VoteSrv], app[VoteSrv], msg, addr, NoToken, now)
            IN /\ r.app = app[VoteSrv]
               /\ r.out = {AuthFailed(addr)}
               /\ r.net = <<>>

\* The server has just answered AUTH_FAILED while a client is registered and
\* a ballot is pending.
C9_Witness ==
    /\ \E addr \in Addrs : out = {AuthFailed(addr)}
    /\ DOMAIN app[VoteSrv].clients # {}
    /\ app[VoteSrv].fo_pending # <<>>

\* ------------------------------------------------------------------ C10
\* C10: once clients[cid] exists on a server it never changes: no step
\* replaces its token or its address or removes it.
C10_SessionNeverChanges ==
    [][\A s \in Servers : \A cid \in DOMAIN app[s].clients :
          /\ cid \in DOMAIN app'[s].clients
          /\ app'[s].clients[cid] = app[s].clients[cid]]_vars

\* ------------------------------------------------------------------ membership
\* The servers from their construction: the announcements of
\* __discovery_service_broadcast reach each server in any order, and an
\* election starts when a server hears its own announcement.
InitDisc ==
    /\ InitServer
    /\ obs = FALSE

\* The servers that are started; the others are never run.
BootServers == 1..NBoot

NextDisc ==
    \/ \E s \in BootServers, sid \in BootServers : Discovery(s, sid)
    \/ \E s \in BootServers : HandleHs(s)

SpecDisc == InitDisc /\ [][NextDisc]_vars

\* C11: in every reachable state, from start-up on and after any sequence of
\* announcements, a server's own id is a member of its view, and so
\* __build_ring finds it (the discovery thread is never ended by ValueError).
C11_SelfInView ==
    \A s \in BootServers : s \in srv[s].servers /\ srv[s].disc_alive

\* Ring construction on a common view: the view is any non-empty set of
\* servers, every member holds it, and the members build their rings one by
\* one.
RingServers == 1..NRing

InitRing ==
    /\ \E V \in SUBSET RingServers \ {{}} :
          srv = [s \in RingServers |->
                    IF s \in V THEN [ServerInit(s) EXCEPT !.servers = V]
                    ELSE ServerInit(s)]
    /\ net = EmptyBag
    /\ starts = [s \in Servers |-> 0]
    /\ obs = FALSE
    /\ AppQuiet

BuildRing(s) ==
    /\ s \in srv[s].servers
    /\ srv[s].left = None
    /\ srv' = [srv EXCEPT ![s] = build_ring(srv[s])]
    /\ UNCHANGED <<net, starts, app, rt, now, cnet, cl, obs, out, audit>>

NextRing == \E s \in RingServers : BuildRing(s)

SpecRing == InitRing /\ [][NextRing]_vars

\* The servers of V all hold the view V and have built their rings on it.
RingBuilt(V) == \A s \in V : srv[s].servers = V /\ srv[s].left # None

\* C12: when the servers of a view V all hold V and have built their rings,
\* for every s in V the left neighbour of s's right neighbour is s and the
\* right neighbour of s's left neighbour is s; with |V| = 1, left = right = s.
C12_RingClosure ==
    \A V \in SUBSET (DOMAIN srv) \ {{}} :
        RingBuilt(V) =>
            \A s \in V :
                /\ srv[s].left \in V /\ srv[s].right \in V
                /\ srv[srv[s].right].left = s
                /\ srv[srv[s].left].right = s
                /\ (Cardinality(V) = 1 => srv[s].left = s /\ srv[s].right = s)

\* A common view of at least three servers whose rings are all built.
C12_Witness ==
    \E V \in SUBSET (DOMAIN srv) : Cardinality(V) >= 3 /\ RingBuilt(V)

\* The announcements are repeated every interval, so each one is eventually
\* heard by a live discovery thread, and unicast datagrams are delivered.
FairDisc ==
    /\ SpecDisc
    /\ \A s \in BootServers, sid \in BootServers : WF_vars(Discovery(s, sid))
    /\ \A s \in BootServers : WF_vars(HandleHs(s))

Converged ==
    \A s \in BootServers :
        /\ srv[s].leader = Max(BootServers)
        /\ srv[s].is_leader = (s = Max(BootServers))

\* C13: servers that boot and discover one another in any order eventually
\* converge: every server has leader = the greatest id of the full view and
\* only that server has is_leader = TRUE.
C13_EventuallyConverged == <>Converged

\* ------------------------------------------------------------------ failure detection
\* discovery.py drives a server object that has, besides the fields of
\* Server.__init__, the flag heartbeat_ack_received; up tells whether the
\* process runs and hb_pc where its broadcast thread stands ("settle" is the
\* sleep(2) between the CRASH line and hs_start).
ElectedServer(s) ==
    build_ring([ServerInit(s) EXCEPT !.servers = Servers,
                                     !.leader = Max(Servers),
                                     !.is_leader = (s = Max(Servers))])
    @@ [up |-> TRUE, heartbeat_ack_received |-> TRUE, hb_pc |-> "idle"]

Survivors == {s \in Servers : srv[s].up}

\* The process of the leader stops: it handles and sends nothing from then on.
Crash(s) ==
    /\ s \in Servers
    /\ Survivors = Servers
    /\ srv[s].is_leader
    /\ srv' = [srv EXCEPT ![s].up = FALSE]
    /\ UNCHANGED <<net, starts, app, rt, now, cnet, cl, obs, out, audit>>

\* discovery_service_broadcast, heartbeat check: the left neighbour has not
\* acknowledged for HEARTBEAT_TIMEOUT, so "CRASH:<left>" goes to the group.
\* The timeout is longer than a datagram travels: what was sent to a running
\* server before the crash has been handled by then.
HeartbeatTimeout(s) ==
    /\ s \in Survivors
    /\ srv[s].hb_pc = "idle"
    /\ srv[s].left \in Servers \ Survivors
    /\ srv[s].heartbeat_ack_received
    /\ \A m \in BagToSet(net) : m.to \notin Survivors
    /\ srv' = [srv EXCEPT ![s].heartbeat_ack_received = FALSE,
                          ![s].hb_pc = "settle"]
    /\ net' = net (+) SetToBag({[type |-> "CRASH", id |-> srv[s].left, to |-> t] :
                                    t \in Survivors})
    /\ UNCHANGED <<starts, app, rt, now, cnet, cl, obs, out, audit>>

\* discovery_service_broadcast after the sleep(2), in which the CRASH lines
\* have reached the group: hs_start(server)
HeartbeatElection(s) ==
    /\ s \in Survivors
    /\ srv[s].hb_pc = "settle"
    /\ \A m \in BagToSet(net) : m.type # "CRASH"
    /\ LET r == hs_start([srv[s] EXCEPT !.hb_pc = "idle"])
       IN /\ srv' = [srv EXCEPT ![s] = r.st]
          /\ net' = net (+) SeqToBag(Sent(r.out))
    /\ UNCHANGED <<starts, app, rt, now, cnet, cl, obs, out, audit>>

\* discovery_service on "CRASH:<sid>": the removal is guarded, the re-adding
\* of the own id and build_ring are not.
crash_gossip(st, sid) ==
    LET st1 == IF sid # st.id /\ sid \in st.servers
               THEN [st EXCEPT !.servers = @ \ {sid}]
               ELSE st
        st2 == [st1 EXCEPT !.servers = @ \cup {st.id}]
    IN build_ring(st2)

CrashGossip(s) ==
    /\ s \in Survivors
    /\ \E msg \in BagToSet(net) :
          /\ msg.to = s
          /\ msg.type = "CRASH"
          /\ srv' = [srv EXCEPT ![s] = crash_gossip(srv[s], msg.id)]
          /\ net' = net (-) SetToBag({msg})
    /\ UNCHANGED <<starts, app, rt, now, cnet, cl, obs, out, audit>>

\* The unicast handler of a running server.
HandleHsUp(s) ==
    /\ s \in Survivors
    /\ HandleHs(s)

\* The operator of a server starts an election while the leader still runs.
HsStartUp(s) ==
    /\ Survivors = Servers
    /\ HsStart(s, MaxCrashStarts)

\* Three servers that have agreed on the leader; the leader crashes at any
\* moment, possibly while an election started at a survivor is under way.
InitCrash ==
    /\ srv = [s \in Servers |-> ElectedServer(s)]
    /\ net = EmptyBag
    /\ starts = [s \in Servers |-> 0]
    /\ obs = FALSE
    /\ AppQuiet

NextCrash ==
    \/ \E s \in Servers : Crash(s)
    \/ \E s \in Servers : HeartbeatTimeout(s)
    \/ \E s \in Servers : HeartbeatElection(s)
    \/ \E s \in Servers : CrashGossip(s)
    \/ \E s \in Servers : HandleHsUp(s)
    \/ \E s \in Servers : HsStartUp(s)

SpecCrash == InitCrash /\ [][NextCrash]_vars

\* Heartbeats, gossip and unicast datagrams among running servers arrive.
FairCrash ==
    /\ SpecCrash
    /\ \A s \in Servers :
          /\ WF_vars(HeartbeatTimeout(s))
          /\ WF_vars(HeartbeatElection(s))
          /\ WF_vars(CrashGossip(s))
          /\ WF_vars(HandleHsUp(s))

Recovered ==
    \A s \in Survivors :
        /\ srv[s].leader = Max(Survivors)
        /\ srv[s].is_leader = (s = Max(Survivors))
        /\ ~srv[s].election_in_progress

\* C14: after the leader crashes, at any moment and also while an election is
\* in progress at a survivor, the survivors eventually all have leader = the
\* greatest surviving id, that server has is_leader = TRUE and no survivor has
\* election_in_progress.
C14_EventuallyRecovered == (Survivors # Servers) ~> Recovered

\* ------------------------------------------------------------------ replication
\* The address a datagram of a server comes from.
ServerAddr(s) == IF s = 1 THEN "s1" ELSE IF s = 2 THEN "s2" ELSE "s3"

\* Server.__handle_message on a datagram of another server: REPL_REGISTER
\* stores the session, a forwarded request goes to its handler with the
\* address of the server that forwarded it.
handle_repl(st, a, m, t) ==
    IF m.type = "REPL_REGISTER"
    THEN ARes([a EXCEPT !.clients =
                   (m.id :> [token |-> m.token, addr |-> m.addr]) @@ a.clients],
              {}, <<>>, TRUE)
    ELSE handle_message(st, a, m.req, ServerAddr(m.from), NoToken, t)

\* The datagrams in flight once server s has taken m, the first of its
\* replication datagrams: the others move up one place.
Advance(s, m) ==
    LET rest == ReplInFlight(s) \ {m}
    IN ((net (-) SetToBag({m})) (-) SetToBag(rest))
       (+) SetToBag({[k EXCEPT !.n = @ - 1] : k \in rest})

HandleRepl(s) ==
    /\ s \in Survivors
    /\ \E m \in ReplInFlight(s) :
          /\ \A k \in ReplInFlight(s) : m.n <= k.n
          /\ LET r == handle_repl(srv[s], app[s], m, now)
             IN /\ app' = [app EXCEPT ![s] = r.app]
                /\ out' = IF obs THEN r.out ELSE {}
                /\ cnet' = cnet \cup {d \in r.out : d.msg.type = "VOTE"}
                /\ net' = Advance(s, m) (+) SeqToBag(Stamp(r.net))
                /\ audit' = [v \in DOMAIN r.app.votes |->
                                IF v \in DOMAIN audit THEN audit[v]
                                ELSE AuditInit(srv[s].is_leader)]
    /\ UNCHANGED <<srv, starts, rt, now, cl, obs>>

\* A running leader whose replication is not too far behind takes a request.
Serving(s) ==
    /\ s \in Survivors
    /\ srv[s].is_leader
    /\ \A t \in Servers : Cardinality(ReplInFlight(t)) < MaxRepl

ServeRegister(s) ==
    /\ Serving(s)
    /\ Register(s, FALSE, NTokensVote)

ServeCreateGroup(s) ==
    /\ Serving(s)
    /\ CreateGroup(s, FALSE)

ServeJoinGroup(s) ==
    /\ Serving(s)
    /\ JoinGroup(s, FALSE)

ServeLeaveGroup(s) ==
    /\ Serving(s)
    /\ LeaveGroup(s, FALSE)

ServeGetGroups(s) ==
    /\ Serving(s)
    /\ GetGroups(s, FALSE)

\* The follower after the leader's crash: it drops the leader from its view
\* and, alone in it, wins the election.  Detecting the crash takes longer
\* than a datagram travels: what the leader sent has been handled by then.
Failover(s) ==
    /\ s \in Survivors
    /\ ~srv[s].is_leader
    /\ srv[s].leader \in Servers \ Survivors
    /\ ReplInFlight(s) = {}
    /\ srv' = [srv EXCEPT ![s] =
                  hs_declare_leader(crash_gossip(srv[s], srv[s].leader)).st]
    /\ UNCHANGED <<net, starts, app, rt, now, cnet, cl, obs, out, audit>>

\* Two servers that have agreed on the leader; the third is not started.
ReplServer(s) ==
    IF s \in {ReplLeader, ReplFollower}
    THEN build_ring([ServerInit(s) EXCEPT !.servers = {ReplLeader, ReplFollower},
                                          !.leader = ReplLeader,
                                          !.is_leader = (s = ReplLeader)])
         @@ [up |-> TRUE, heartbeat_ack_received |-> TRUE, hb_pc |-> "idle"]
    ELSE ServerInit(s) @@ [up |-> TRUE, heartbeat_ack_received |-> TRUE,
                           hb_pc |-> "idle"]

InitRepl ==
    /\ srv = [s \in Servers |-> ReplServer(s)]
    /\ net = EmptyBag
    /\ starts = [s \in Servers |-> 0]
    /\ obs = TRUE
    /\ AppQuiet

NextRepl ==
    \/ \E s \in Servers : ServeRegister(s)
    \/ \E s \in Servers : ServeCreateGroup(s)
    \/ \E s \in Servers : ServeJoinGroup(s)
    \/ \E s \in Servers : ServeLeaveGroup(s)
    \/ \E s \in Servers : ServeGetGroups(s)
    \/ \E s \in Servers : HandleRepl(s)
    \/ \E s \in Servers : Crash(s)
    \/ \E s \in Servers : Failover(s)

SpecRepl == InitRepl /\ [][NextRepl]_vars

ServeStartVote(s) ==
    /\ Serving(s)
    /\ StartVote(s, FALSE, MaxVotesRepl, ZeroTimeout)

ServeVoteAck(s) ==
    /\ Serving(s)
    /\ VoteAck(s, FALSE, MaxVotesRepl, MaxBallotsRepl)

InitReplVote ==
    /\ srv = [s \in Servers |-> ReplServer(s)]
    /\ net = EmptyBag
    /\ starts = [s \in Servers |-> 0]
    /\ obs = FALSE
    /\ app = [s \in Servers |->
                 IF s \in {ReplLeader, ReplFollower}
                 THEN Joined(AppInit, ClientList) ELSE AppInit]
    /\ rt = [s \in Servers |-> RtInit]
    /\ now = 0
    /\ cnet = {}
    /\ cl = [c \in Clients |-> ClientInit]
    /\ out = {}
    /\ audit = EmptyFn

NextReplVote ==
    \/ \E s \in Servers : ServeStartVote(s)
    \/ \E s \in Servers : ServeVoteAck(s)
    \/ \E s \in Servers : ServeJoinGroup(s)
    \/ \E s \in Servers : ServeLeaveGroup(s)
    \/ \E s \in Servers : HandleRepl(s)

SpecReplVote == InitReplVote /\ [][NextReplVote]_vars

\* C16: once the leader has handled a START_VOTE and its VOTE_ACKs and the
\* replication datagrams have been delivered, the follower holds a vote record
\* with the same vote_id, group, topic, options and ballots as the leader.
C16_VotesReplicated ==
    ReplInFlight(ReplFollower) = {}
       => app[ReplFollower].votes = app[ReplLeader].votes

\* ------------------------------------------------------------------ who talks to clients
\* Server.__discovery_service on "WHO_IS_LEADER" from a client address
WhoIsLeader(s) ==
    /\ s \in Servers
    /\ \E addr \in Addrs :
          out' = IF srv[s].is_leader /\ obs
                 THEN {Dg(addr, [type |-> "LEADER", id |-> s])} ELSE {}
    /\ UNCHANGED <<srv, net, starts, app, rt, now, cnet, cl, obs, audit>>

\* A follower of the two-server deployment that clients address directly,
\* with any request, id, token and source address.
NextSilent ==
    \/ \E s \in {ReplLeader, ReplFollower} : WhoIsLeader(s)
    \/ Register(ReplFollower, TRUE, NTokensVote)
    \/ CreateGroup(ReplFollower, TRUE)
    \/ GetGroups(ReplFollower, TRUE)
    \/ JoinGroup(ReplFollower, TRUE)
    \/ JoinedGroups(ReplFollower, TRUE)
    \/ LeaveGroup(ReplFollower, TRUE)
    \/ StartVote(ReplFollower, TRUE, MaxVotesAuth, ZeroTimeout)
    \/ VoteAck(ReplFollower, TRUE, MaxVotesAuth, MaxBallotsAuth)

SpecSilent == InitRepl /\ [][NextSilent]_vars

\* C17: a server whose is_leader flag is false never sends a datagram to a
\* client, whatever request it receives and from whom: the only datagrams to
\* clients are those of the leader.
C17_NonLeaderSilent ==
    /\ ~srv[ReplFollower].is_leader
    /\ \A d \in out : d.msg.type = "LEADER" /\ srv[d.msg.id].is_leader

\* ------------------------------------------------------------------ acknowledgements
\* The vote client.py puts in every acknowledgement.
ClientVoteValue == "McDonalds"

\* Client.__send_fo_ack: the datagram sent to the sender of the ballot
send_fo_ack(c, token, g, q, S, v) ==
    [type |-> "VOTE_ACK", group |-> g, sender |-> q, seq |-> S, id |-> c,
     vote |-> v, token |-> token]

\* msg.get(key): None when the datagram has no such key
Get(msg, key, none) == IF key \in DOMAIN msg THEN msg[key] ELSE none

\* The fields Server.__vote_ack and is_authenticated read from a datagram
vote_ack_fields(msg) ==
    [type |-> msg.type, id |-> msg.id, token |-> Get(msg, "token", NoToken),
     group |-> Get(msg, "group", NoGroup), vote_id |-> Get(msg, "vote_id", NoVote),
     S |-> Get(msg, "S", NoSeq), vote |-> Get(msg, "vote", ClientVoteValue)]

AcksInFlight == {m \in BagToSet(net) : m.type = "CLIENT_ACK"}

\* Client.__vote: a VOTE datagram reaches client c (any datagram ever sent
\* may arrive, any number of times); the client delivers or holds it back and
\* acknowledges it with the token of its session.
ClientVote(c) ==
    /\ c \in Clients
    /\ \A m \in AcksInFlight : net[m] < MaxAcks
    /\ Cardinality(AcksInFlight) < MaxAcks
    /\ \E d \in cnet, token \in TokenChoices(VoteSrv, c, FALSE) :
          /\ d.to = ClientAddr(c)
          /\ cl' = [cl EXCEPT ![c] = vote(cl[c], d.msg)]
          /\ net' = net (+) SetToBag({[type |-> "CLIENT_ACK", to |-> d.msg.sender,
                                       from |-> c,
                                       msg |-> send_fo_ack(c, token, d.msg.group,
                                                           d.msg.sender, d.msg.S,
                                                           ClientVoteValue)]})
    /\ out' = {}
    /\ UNCHANGED <<srv, starts, app, rt, now, cnet, obs, audit>>

\* Server.__message_handling: an acknowledgement of a client arrives
HandleAck(s) ==
    /\ s \in Servers
    /\ \E m \in AcksInFlight :
          /\ m.to = s
          /\ LET r == handle_message(srv[s], app[s], vote_ack_fields(m.msg),
                                     ClientAddr(m.from), NoToken, now)
             IN /\ app' = [app EXCEPT ![s] = r.app]
                /\ out' = IF obs THEN r.out ELSE {}
                /\ cnet' = cnet \cup {d \in r.out : d.msg.type = "VOTE"}
                /\ net' = (net (-) SetToBag({m})) (+) SeqToBag(Stamp(r.net))
                /\ audit' = [v \in DOMAIN r.app.votes |->
                                IF v \in DOMAIN audit THEN audit[v]
                                ELSE AuditInit(srv[s].is_leader)]
    /\ UNCHANGED <<srv, starts, rt, now, cl, obs>>

\* The booted server with the group formed, and the clients of client.py:
\* every ballot a client receives is acknowledged.
NextAck ==
    \/ StartVote(VoteSrv, FALSE, MaxVotesAck, ZeroTimeout)
    \/ \E c \in Clients : ClientVote(c)
    \/ HandleAck(VoteSrv)

SpecAck == InitVote /\ [][NextAck]_vars

\* The ballots client c has received of which no acknowledgement is on its way.
Acknowledged(c) ==
    {d \in cnet : /\ d.to = ClientAddr(c)
                  /\ \E i \in 1..Len(cl[c].delivered) :
                        /\ cl[c].delivered[i].group = d.msg.group
                        /\ cl[c].delivered[i].S = d.msg.S
                  /\ \A m \in AcksInFlight : m.from # c}

\* C18: the VOTE_ACK a client emits for a received VOTE{vote_id, group, S}
\* carries that vote_id, group and S with its id and token, so that once the
\* leader has handled it while the entry (group, S) is pending, the client is
\* no longer in the entry's pending set and its ballot is in votes[vote_id].
C18_AckRecorded ==
    \A c \in Clients : \A d \in Acknowledged(c) :
        LET a == app[VoteSrv]
            i == PendingIndex(a.fo_pending, <<d.msg.group, d.msg.S>>)
        IN i # 0 =>
              /\ c \notin a.fo_pending[i].pending
              /\ \E k \in 1..Len(a.votes[d.msg.vote_id].votes) :
                    a.votes[d.msg.vote_id].votes[k].id = c

\* ------------------------------------------------------------------ a server alone in its view
\* A server comes to be alone in its view in two ways: it boots with no
\* peers and hears only its own announcement, or it is the follower of a
\* two-server deployment whose leader crashes and is removed by CRASH gossip.
InitAlone ==
    /\ \/ srv = [s \in Servers |->
                    ServerInit(s) @@ [up |-> TRUE, heartbeat_ack_received |-> TRUE,
                                      hb_pc |-> "idle"]]
       \/ srv = [s \in Servers |-> ReplServer(s)]
    /\ net = EmptyBag
    /\ starts = [s \in Servers |-> 0]
    /\ obs = FALSE
    /\ AppQuiet

\* The server hears its own announcement.
DiscoverSelf(s) ==
    /\ s \in Survivors
    /\ Discovery(s, s)

NextAlone ==
    \/ DiscoverSelf(ReplFollower)
    \/ \E s \in Servers : Crash(s)
    \/ \E s \in Servers : HeartbeatTimeout(s)
    \/ \E s \in Servers : HeartbeatElection(s)
    \/ \E s \in Servers : CrashGossip(s)
    \/ \E s \in Servers : HandleHsUp(s)
    \/ HsStartUp(ReplFollower)

SpecAlone == InitAlone /\ [][NextAlone]_vars

FairAlone ==
    /\ SpecAlone
    /\ WF_vars(DiscoverSelf(ReplFollower))
    /\ \A s \in Servers :
          /\ WF_vars(HeartbeatTimeout(s))
          /\ WF_vars(HeartbeatElection(s))
          /\ WF_vars(CrashGossip(s))
          /\ WF_vars(HandleHsUp(s))

AloneLeader(s) ==
    /\ srv[s].leader = s
    /\ srv[s].is_leader
    /\ srv[s].left = s
    /\ srv[s].right = s

\* C19: a server whose view is {self}, at boot with no peers or after CRASH
\* gossip has removed all peers, reaches and stays in the state leader = self,
\* is_leader = TRUE, left = right = self.
C19_AloneBecomesLeader ==
    (srv[ReplFollower].servers = {ReplFollower}) ~> [](AloneLeader(ReplFollower))

\* ------------------------------------------------------------------ stale replies
\* C20: in a stable view, under any delay and reordering of datagrams and any
\* number of election starts, an HS_REPLY of an earlier phase or election does
\* not count towards the current phase, and so no server other than the
\* greatest of the view ever comes to declare itself leader.
C20_OnlyMaxDeclares ==
    [][\A s \in Servers \ {Max(Servers)} :
          srv'[s].is_leader => srv[s].is_leader]_vars

\* ------------------------------------------------------------------ reply counter
\* C21: in every reachable state of every server pending_replies is 0, 1 or 2
\* (never negative), under any interleaving of election starts and delayed
\* HS_REPLY and HS_LEADER datagrams.
C21_PendingRepliesRange ==
    \A s \in Servers : srv[s].pending_replies \in {0, 1, 2}

\* ------------------------------------------------------------------ overlapping hs_start
\* The threads of Server.run that call __hs_start: __discovery_service,
\* __message_handling and the menu loop.
Threads == {"discovery", "message", "menu"}

\* hs_pc[th], the position of thread th with respect to __hs_start:
\*   idle     outside of it
\*   sleep    __discovery_service in time.sleep(2), before its call
\*   called   __hs_election has read election_in_progress = False (line 223)
\*            and calls it
\*   passed   the test of line 169 is behind it, line 173 is next
ThreadServer(s) == ServerInit(s) @@ [hs_pc |-> [th \in Threads |-> "idle"]]

SetPc(st, th, pc) == [st EXCEPT !.hs_pc[th] = pc]

\* Server.__hs_start from line 173 on, for a caller that has passed the test
hs_start_passed(st) == hs_start([st EXCEPT !.election_in_progress = FALSE])

\* __discovery_service on "SERVER:<sid>", up to the sleep before hs_start
ThreadDiscovery(s, sid) ==
    /\ srv[s].disc_alive
    /\ srv[s].hs_pc["discovery"] = "idle"
    /\ sid \notin srv[s].servers
    /\ LET st1 == [srv[s] EXCEPT !.servers = @ \cup {sid}]
       IN IF s \notin st1.servers
          THEN srv' = [srv EXCEPT ![s] = [st1 EXCEPT !.disc_alive = FALSE]]
          ELSE srv' = [srv EXCEPT ![s] =
                          SetPc(build_ring(st1), "discovery",
                                IF sid = s THEN "sleep" ELSE "idle")]
    /\ out' = {}
    /\ UNCHANGED <<net, starts, app, rt, now, cnet, cl, obs, audit>>

\* Menu choice 2: the call of __hs_start
ThreadMenu(s) ==
    /\ srv[s].hs_pc["menu"] = "idle"
    /\ TotalStarts < MaxMenuStarts
    /\ srv' = [srv EXCEPT ![s] = SetPc(@, "menu", "called")]
    /\ starts' = [starts EXCEPT ![s] = @ + 1]
    /\ out' = {}
    /\ UNCHANGED <<net, app, rt, now, cnet, cl, obs, audit>>

\* __message_handling: one HS_* datagram.  An HS_ELECTION of a smaller id
\* that finds no election in progress leads to the call of __hs_start; every
\* other datagram is handled to the end.
ThreadMessage(s) ==
    /\ srv[s].hs_pc["message"] = "idle"
    /\ \E msg \in BagToSet(net) :
          /\ msg.to = s
          /\ msg.type \in {"HS_ELECTION", "HS_REPLY", "HS_LEADER"}
          /\ IF msg.type = "HS_ELECTION" /\ msg.id < s
                /\ ~srv[s].election_in_progress
             THEN /\ srv' = [srv EXCEPT ![s] = SetPc(@, "message", "called")]
                  /\ net' = net (-) SetToBag({msg})
             ELSE LET r == CASE msg.type = "HS_ELECTION" -> hs_election(srv[s], msg)
                             [] msg.type = "HS_REPLY" -> hs_reply(srv[s], msg)
                             [] msg.type = "HS_LEADER" -> hs_leader(srv[s], msg)
                  IN /\ srv' = [srv EXCEPT ![s] = r.st]
                     /\ net' = (net (-) SetToBag({msg})) (+) SeqToBag(Sent(r.out))
    /\ out' = {}
    /\ UNCHANGED <<starts, app, rt, now, cnet, cl, obs, audit>>

\* __hs_start, line 169: the test of election_in_progress by thread th
HsStartTest(s, th) ==
    /\ th \in Threads
    /\ srv[s].hs_pc[th] = IF th = "discovery" THEN "sleep" ELSE "called"
    /\ srv' = [srv EXCEPT ![s] =
                  SetPc(@, th, IF srv[s].election_in_progress THEN "idle"
                               ELSE "passed")]
    /\ out' = {}
    /\ UNCHANGED <<net, starts, app, rt, now, cnet, cl, obs, audit>>

\* __hs_start, lines 173-181, by a thread that has passed the test
HsStartRun(s, th) ==
    /\ th \in Threads
    /\ srv[s].hs_pc[th] = "passed"
    /\ LET r == hs_start_passed(srv[s])
       IN /\ srv' = [srv EXCEPT ![s] = SetPc(r.st, th, "idle")]
          /\ net' = net (+) SeqToBag(Sent(r.out))
    /\ out' = {}
    /\ UNCHANGED <<starts, app, rt, now, cnet, cl, obs, audit>>

\* The servers from their construction, with the threads of each.
InitThreads ==
    /\ srv = [s \in Servers |-> ThreadServer(s)]
    /\ net = EmptyBag
    /\ starts = [s \in Servers |-> 0]
    /\ obs = FALSE
    /\ AppQuiet

NextThreads ==
    \/ \E s \in BootServers, sid \in BootServers : ThreadDiscovery(s, sid)
    \/ \E s \in BootServers : ThreadMenu(s)
    \/ \E s \in BootServers : ThreadMessage(s)
    \/ \E s \in BootServers, th \in Threads : HsStartTest(s, th)
    \/ \E s \in BootServers, th \in Threads : HsStartRun(s, th)

SpecThreads == InitThreads /\ [][NextThreads]_vars

\* C22: among overlapping invocations of hs_start on one server only one
\* starts an election: an invocation resets phase and sends its probes only
\* if no election is in progress at that moment, and an invocation that finds
\* election_in_progress set changes neither leader, is_leader, phase nor
\* pending_replies and sends nothing.
C22_OneStartAmongOverlapping ==
    [][\A s \in BootServers : \A th \in Threads :
          /\ (srv[s].hs_pc[th] = "passed" /\ srv'[s].hs_pc[th] = "idle")
                => ~srv[s].election_in_progress
          /\ (srv[s].hs_pc[th] \in {"sleep", "called"} /\ srv'[s].hs_pc[th] = "idle")
                => /\ srv'[s].leader = srv[s].leader
                   /\ srv'[s].is_leader = srv[s].is_leader
                   /\ srv'[s].phase = srv[s].phase
                   /\ srv'[s].pending_replies = srv[s].pending_replies
                   /\ net' = net]_vars

\* ------------------------------------------------------------------ the leader's announcement
\* A stable view V, any non-empty set of servers: each member has discovered
\* itself, elected itself while alone, and then discovered the others.
StableIn(s, V) ==
    build_ring([ServerInit(s) EXCEPT !.servers = V, !.leader = s,
                                     !.is_leader = TRUE, !.phase = 1])

InitViews ==
    /\ \E V \in SUBSET Servers \ {{}} :
          srv = [s \in Servers |-> IF s \in V THEN StableIn(s, V) ELSE ServerInit(s)]
    /\ net = EmptyBag
    /\ starts = [s \in Servers |-> 0]
    /\ obs = FALSE
    /\ AppQuiet

\* The operator of a member of the view starts an election.
ViewStart(s) ==
    /\ s \in srv[s].servers
    /\ HsStart(s, MaxViewStarts)

NextViews ==
    \/ \E s \in Servers : ViewStart(s)
    \/ \E s \in Servers : HandleHs(s)

SpecViews == InitViews /\ [][NextViews]_vars

\* C23: in a stable view the HS_LEADER{cid} announcement of the declared
\* leader goes round the ring and stops at the server whose left neighbour is
\* cid: it is never sent back to the leader cid itself.
C23_AnnouncementStops ==
    \A m \in BagToSet(net) : m.type = "HS_LEADER" => m.to # m.id

\* ------------------------------------------------------------------ CRASH gossip
\* The step handles the CRASH datagram m at the server it is addressed to.
HandlesCrash(m) ==
    /\ m.type = "CRASH"
    /\ m \in BagToSet(net)
    /\ net' = net (-) SetToBag({m})

\* C24: on CRASH:<sid> with sid in its view and different from itself a
\* server removes sid from the view, recomputes left and right over what
\* remains and starts an HS election; a CRASH that names the server itself
\* or an unknown sid removes nothing from the view.
C24_CrashRemovesAndElects ==
    [][\A s \in Servers : \A sid \in Servers :
          HandlesCrash([type |-> "CRASH", id |-> sid, to |-> s]) =>
              IF sid \in srv[s].servers /\ sid # s
              THEN /\ srv'[s].servers = srv[s].servers \ {sid}
                   /\ srv'[s].left = build_ring(srv'[s]).left
                   /\ srv'[s].right = build_ring(srv'[s]).right
                   /\ srv'[s].election_in_progress
              ELSE srv'[s].servers = srv[s].servers]_vars

\* ------------------------------------------------------------------ membership changes during a vote
\* The booted leader with the group formed: clients that follow the protocol
\* join, leave, start votes and acknowledge, the clock runs, the retransmit
\* thread works, and every datagram sent to a client is recorded.
InitJoin ==
    /\ InitBooted
    /\ app = [s \in Servers |->
                 IF s = VoteSrv THEN Joined(AppInit, ClientList) ELSE AppInit]
    /\ obs = TRUE

NextJoin ==
    \/ JoinGroup(VoteSrv, FALSE)
    \/ LeaveGroup(VoteSrv, FALSE)
    \/ StartVote(VoteSrv, FALSE, MaxVotes, MaxTimeout)
    \/ VoteAck(VoteSrv, FALSE, MaxVotes, MaxBallots)
    \/ Tick
    \/ RtBegin(VoteSrv)
    \/ RtScan(VoteSrv)
    \/ RtSend(VoteSrv)
    \/ RtPop(VoteSrv)
    \/ RtResult(VoteSrv)

SpecJoin == InitJoin /\ [][NextJoin]_vars

\* The clients whose address a VOTE datagram of the step goes to.
VoteRecipients(s, key) ==
    {c \in DOMAIN app[s].clients :
        \E d \in out' : /\ d.msg.type = "VOTE"
                        /\ <<d.msg.group, d.msg.S>> = key
                        /\ d.to = app[s].clients[c].addr}

C25_Step(s) ==
    LET fo == app[s].fo_pending
        fo2 == app'[s].fo_pending
    IN \* a step that changes the members of a group changes no pending entry
       /\ app'[s].groups # app[s].groups => fo2 = fo
       \* no client is ever added to the pending set of an entry
       /\ \A i \in 1..Len(fo) :
             LET j == PendingIndex(fo2, fo[i].key)
             IN j # 0 => fo2[j].pending \subseteq fo[i].pending
       \* a VOTE goes to the members at the send (first transmission) or to
       \* clients of the pending set (retransmission), to nobody else
       /\ \A d \in out' :
             d.msg.type = "VOTE" =>
                LET key == <<d.msg.group, d.msg.S>>
                    i == PendingIndex(fo, key)
                IN VoteRecipients(s, key) \subseteq
                      IF i = 0 THEN app[s].groups[d.msg.group].members
                      ELSE fo[i].pending
       \* a pass of the retransmit loop over an entry that is not due has sent
       \* to every client of its pending set, member of the group or not
       /\ (rt[s].pc = "send" /\ rt'[s].pc \notin {"send", "dead"}) =>
             LET key == Head(rt[s].items)
             IN fo[PendingIndex(fo, key)].pending
                   = rt[s].seen \cup VoteRecipients(s, key)

ResultRecipients(v) ==
    {c \in DOMAIN app[VoteSrv].clients :
        CopiesIn(app[VoteSrv].clients[c].addr, audit[v].sent) >= 1}

\* C26: once a vote is finalized, VOTE_RESULT has been sent to exactly the
\* clients that were in groups[g].members when __finalize_vote ran, whatever
\* the recipients of the ballot were: those who joined since are among them,
\* those who left are not.
C26_ResultToCurrentMembers ==
    \A v \in DOMAIN audit :
        FinalizeDone(v) => ResultRecipients(v) = audit[v].members

\* ------------------------------------------------------------------ sequence numbers
\* The booted leader from an empty registry: clients register, create the
\* group (again and again), join, leave and start votes; the clock runs and
\* the retransmit thread removes the entries that are due.
NextSeq ==
    \/ Register(VoteSrv, FALSE, NTokensVote)
    \/ CreateGroup(VoteSrv, FALSE)
    \/ JoinGroup(VoteSrv, FALSE)
    \/ LeaveGroup(VoteSrv, FALSE)
    \/ StartVote(VoteSrv, FALSE, MaxVotesSeq, ZeroTimeout)
    \/ Tick
    \/ RtBegin(VoteSrv)
    \/ RtScan(VoteSrv)
    \/ RtSend(VoteSrv)
    \/ RtPop(VoteSrv)
    \/ RtResult(VoteSrv)

SpecSeq == InitFifo /\ [][NextSeq]_vars

C27_Step(s) ==
    LET a == app[s]
        a2 == app'[s]
        new == Keys(a2.fo_pending) \ Keys(a.fo_pending)
    IN \* S[g] is 0 when g is created
       /\ \A g \in DOMAIN a2.S \ DOMAIN a.S : a2.S[g] = 0
       \* the keys in the table lie below S[g]
       /\ \A key \in Keys(a.fo_pending) : key[2] < a.S[key[1]]
       /\ \A g \in DOMAIN a.S :
             \* S[g] stays, or a multicast on g has taken S[g] as its sequence
             \* number and added exactly 1
             /\ g \in DOMAIN a2.S
             /\ \/ a2.S[g] = a.S[g] /\ \A key \in new : key[1] # g
                \/ /\ a2.S[g] = a.S[g] + 1
                   /\ {key \in new : key[1] = g} = {<<g, a.S[g]>>}
                   /\ a2.fo_pending[PendingIndex(a2.fo_pending, <<g, a.S[g]>>)].msg.S
                         = a.S[g]

\* C27: on one server S[g] is 0 when g is created and is never decreased or
\* reset, not by a repeated CREATE_GROUP either; each fo_multicast on g takes
\* the current S[g] as its sequence number and adds exactly 1, so the numbers
\* given out on g are 0, 1, 2, ... and no key (g, seq) is used twice.
C27_SequenceNumbers == [][C27_Step(VoteSrv)]_vars

\* Two ballots were multicast on g; the entry of the first is removed, the
\* entry of the second is in the table.
C27_Witness ==
    /\ "g" \in DOMAIN app[VoteSrv].S
    /\ app[VoteSrv].S["g"] = 2
    /\ Keys(app[VoteSrv].fo_pending) = {<<"g", 1>>}

\* ------------------------------------------------------------------ ballots after a change of leader
\* Two servers that hold the sessions and the group; members start votes at
\* the leader, the follower handles the forwarded requests, the leader
\* crashes, the follower takes over and members start votes there.  The
\* clients receive the ballots in any order, any number of times.
FailoverStartVote(s) ==
    /\ Serving(s)
    /\ StartVote(s, FALSE, MaxVotesFailover, ZeroTimeout)

FailoverRecv(c) ==
    /\ c \in Clients
    /\ \E d \in cnet :
          /\ d.to = ClientAddr(c)
          /\ cl' = [cl EXCEPT ![c] = vote(cl[c], d.msg)]
    /\ out' = {}
    /\ UNCHANGED <<srv, net, starts, app, rt, now, cnet, obs, audit>>

NextFailover ==
    \/ \E s \in Servers : FailoverStartVote(s)
    \/ \E s \in Servers : HandleRepl(s)
    \/ \E s \in Servers : Crash(s)
    \/ \E s \in Servers : Failover(s)
    \/ \E c \in Clients : FailoverRecv(c)

SpecFailover == InitReplVote /\ [][NextFailover]_vars

\* The ballot of sender q on group g with sequence number k was sent to c.
WasSent(c, g, q, k) ==
    \E d \in cnet : /\ d.to = ClientAddr(c)
                    /\ d.msg.group = g
                    /\ d.msg.sender = q
                    /\ d.msg.S = k

\* C28: after a change of leader the ballots the new leader multicasts to a
\* group that had ballots of the old leader are delivered by the members: no
\* member holds a ballot back waiting for sequence numbers its sender never
\* gave out (and, numbers only growing, never will).
C28_NewLeaderBallotsDelivered ==
    \A c \in Clients : \A pair \in DOMAIN cl[c].hold_back :
        \A n \in DOMAIN cl[c].hold_back[pair] :
            \A k \in (cl[c].R[pair] + 1)..(n - 1) :
                WasSent(c, pair[1], pair[2], k)

\* ------------------------------------------------------------------ acknowledgements after finalization
\* The booted leader with the group formed: members start votes, registered
\* clients send VOTE_ACK with any vote_id, group, S and vote, the clock runs
\* and the retransmit thread finalizes.
NextLate ==
    \/ StartVote(VoteSrv, FALSE, MaxVotesLate, ZeroTimeout)
    \/ VoteAck(VoteSrv, TRUE, MaxVotesLate, MaxBallots)
    \/ Tick
    \/ RtBegin(VoteSrv)
    \/ RtScan(VoteSrv)
    \/ RtSend(VoteSrv)
    \/ RtPop(VoteSrv)
    \/ RtResult(VoteSrv)

SpecLate == InitVote /\ [][NextLate]_vars

\* C29: once a vote is finalized (its entry removed, its result computed) its
\* ballot list never changes: no later VOTE_ACK of an authenticated client,
\* whatever vote_id, group and S it carries, appends a ballot to it.
C29_FinalizedBallotsFrozen ==
    [][\A v \in DOMAIN audit :
          audit[v].runs >= 1 =>
              app'[VoteSrv].votes[v].votes = app[VoteSrv].votes[v].votes]_vars

\* ------------------------------------------------------------------ mutual exclusion
\* The keys the retransmit loop is working on: the entry whose pending set it
\* is iterating over and the entries it has decided are finished.
BusyKeys(s) ==
    (IF rt[s].pc = "send" THEN {Head(rt[s].items)} ELSE {})
       \cup {rt[s].finished[i] : i \in 1..Len(rt[s].finished)}

\* The votes of those entries, and the vote __finalize_vote is announcing.
BusyVotes(s) ==
    {app[s].fo_pending[PendingIndex(app[s].fo_pending, k)].vote_id :
        k \in BusyKeys(s) \cap Keys(app[s].fo_pending)}
       \cup (IF rt[s].pc = "result" THEN {rt[s].result.vote_id} ELSE {})

C30_Step(s) ==
    LET fo == app[s].fo_pending
        fo2 == app'[s].fo_pending
    IN \* a step of another thread while the loop is at work on an entry
       (rt'[s] = rt[s] /\ (BusyKeys(s) # {} \/ rt[s].pc = "result")) =>
           \* removes no client from the pending set of that entry
           /\ \A k \in BusyKeys(s) \cap Keys(fo) :
                 /\ k \in Keys(fo2)
                 /\ fo2[PendingIndex(fo2, k)].pending = fo[PendingIndex(fo, k)].pending
           \* appends no ballot to its vote
           /\ \A v \in BusyVotes(s) : app'[s].votes[v].votes = app[s].votes[v].votes
           \* and inserts nothing into fo_pending
           /\ Keys(fo2) \subseteq Keys(fo)

\* C30: the retransmit loop and the message handler access the pending table
\* under mutual exclusion: while the loop iterates over the pending set of an
\* entry, or has decided that an entry is finished and is removing and
\* finalizing it, no VOTE_ACK handler removes a client from the pending set of
\* that entry or appends a ballot to its vote, and no START_VOTE handler
\* inserts into fo_pending.
C30_MutualExclusion == [][C30_Step(VoteSrv)]_vars

====
